---------------------------- MODULE Spec2Model ----------------------------
(***************************************************************************)
(* A model of qpageview/multipage.py: MultiPage (a page that holds a list  *)
(* of sub pages, the first on top) and MultiPageRenderer (a renderer that  *)
(* defers to the renderers of the sub pages and forwards their callbacks). *)
(***************************************************************************)
EXTENDS Integers, Sequences, FiniteSets, TLC

VARIABLES
    pages,        \* MultiPage.pages: [multi page -> sequence of sub pages]
    size,         \* the size (width, height) of each multi page
    opaquePages,  \* MultiPage.opaquePages
    alivePage,    \* the multi pages that are still referenced
    aliveCb,      \* the callbacks that are still referenced
    callbacks,    \* MultiPageRenderer._callbacks, in insertion order
    fwd,          \* the forwarding callbacks (newcallback closures) made so far
    issued,       \* history: what the caller of makecallback last got for <<callback, page>>
    pending,      \* render jobs pending on sub pages: <<sub page, forwarding cb>>
    last          \* what the most recent operation did and returned

vars == <<pages, size, opaquePages, alivePage, aliveCb, callbacks, fwd, issued,
          pending, last>>

\* ---------------------------------------------------------------- bounds

\* The largest number of sub pages of a multi page.
MaxChildren == 3

\* The number of multi pages and of callbacks of the callback specification.
NPages == 2

NCallbacks == 2

\* The largest number of render jobs pending at a time.
MaxJobs == 2

\* The positions and extents sub pages and requested rects are drawn from.
Coord == {0, 1}

Extent == {1, 2}

\* ------------------------------------------------------- QRect and QRegion

Rect(x, y, w, h) == [x |-> x, y |-> y, w |-> w, h |-> h]

\* QRect(): the null rect.
NullRect == Rect(0, 0, 0, 0)

\* bool(QRect): the rect is valid (it holds at least one pixel).
Truthy(r) == r.w > 0 /\ r.h > 0

Max(a, b) == IF a >= b THEN a ELSE b

Min(a, b) == IF a <= b THEN a ELSE b

\* rect & p.geometry(): the intersection, the null rect when there is none.
Intersect(a, b) ==
    LET x1 == Max(a.x, b.x)
        y1 == Max(a.y, b.y)
        x2 == Min(a.x + a.w, b.x + b.w)
        y2 == Min(a.y + a.h, b.y + b.h)
    IN  IF Truthy(a) /\ Truthy(b) /\ x1 < x2 /\ y1 < y2
        THEN Rect(x1, y1, x2 - x1, y2 - y1)
        ELSE NullRect

\* The pixels of a rect.
Points(r) == {<<x, y>> : x \in r.x .. (r.x + r.w - 1), y \in r.y .. (r.y + r.h - 1)}

Inside(pt, r) == /\ r.x <= pt[1] /\ pt[1] < r.x + r.w
                 /\ r.y <= pt[2] /\ pt[2] < r.y + r.h

\* A QRegion is kept as the set of rects added to it; it denotes their union.
\* QRegion(r).subtracted(covered): the pixels of r that covered does not hold.
Subtracted(r, covered) == {pt \in Points(r) : \A c \in covered : ~Inside(pt, c)}

\* overlayrect.translated(-p.pos())
Translated(r, g) == Rect(r.x - g.x, r.y - g.y, r.w, r.h)

\* page.rect(): the rect of a page in its own coordinates.
PageRect(sz) == Rect(0, 0, sz[1], sz[2])

\* QRect.center(), one coordinate: (x1 + x2) / 2 with x2 = x1 + w - 1.
CenterOf(x, w) == (x + (x + w - 1)) \div 2

\* QRect.moveCenter(), one coordinate: x1 = c - (x2 - x1) / 2.
MoveCenter(c, w) == c - ((w - 1) \div 2)

\* ------------------------------------------------------------- MultiPage

\* The identity of sub page i of multi page P.
ChildId(P, i) == 10 * P + i

Parent(c) == c \div 10

Child(P, i, g, rd) == [id |-> ChildId(P, i), geom |-> g, renderer |-> rd]

\* updatePagePositions(): every sub page is centered on the multi page's rect.
Centered(ps, sz) ==
    LET cx == CenterOf(0, sz[1])
        cy == CenterOf(0, sz[2])
    IN  [i \in 1 .. Len(ps) |->
            [ps[i] EXCEPT !.geom = Rect(MoveCenter(cx, ps[i].geom.w),
                                        MoveCenter(cy, ps[i].geom.h),
                                        ps[i].geom.w, ps[i].geom.h)]]

\* Line 114 without the test of opaquePages.
HiddenAlways(opaque, overlayrect, covered) == Subtracted(overlayrect, covered) = {}

\* Line 114 with a sub page counted as hidden once any part of it is covered.
HiddenIfTouched(opaque, overlayrect, covered) ==
    opaque /\ Subtracted(overlayrect, covered) # Points(overlayrect)

\* Line 114: the part of this sub page is hidden below the ones above it.
Hidden(opaque, overlayrect, covered) ==
    opaque /\ Subtracted(overlayrect, covered) = {}

\* Line 118 without the break: the scan goes on to the last sub page.
FullyCoveredNever(opaque, rect, covered) == FALSE

\* Line 118: the whole requested rect is covered, the scan stops.
FullyCovered(opaque, rect, covered) ==
    opaque /\ Subtracted(rect, covered) = {}

\* The loop of visiblePagesAt from sub page i on: the entries yielded and the
\* number of sub pages the loop examined.
RECURSIVE VisScan(_, _, _, _, _, _)
VisScan(ps, opaque, rect, i, covered, out) ==
    IF i > Len(ps) THEN [out |-> out, examined |-> Len(ps)]
    ELSE LET overlayrect == Intersect(rect, ps[i].geom)
         IN  IF ~Truthy(overlayrect) \/ Hidden(opaque, overlayrect, covered)
             THEN VisScan(ps, opaque, rect, i + 1, covered, out)
             ELSE LET cov2 == covered \cup {overlayrect}
                      out2 == Append(out, [page |-> ps[i], rect |-> overlayrect])
                  IN  IF FullyCovered(opaque, rect, cov2)
                      THEN [out |-> out2, examined |-> i]
                      ELSE VisScan(ps, opaque, rect, i + 1, cov2, out2)

\* MultiPage.visiblePagesAt(rect)
visiblePagesAt(ps, opaque, rect) == VisScan(ps, opaque, rect, 1, {}, <<>>)

\* ------------------------------------------------- MultiPageRenderer._callbacks

\* _callbacks is a sequence, in insertion order, of [page, d]; d is a sequence,
\* in insertion order, of [cb, f]: the weak reference to callback cb is the key
\* of forwarding callback f. A weak reference whose callback has expired stays
\* in d until it is removed; it equals no other reference.

\* Lines 139-141: the (r, page) of every expired reference, in iteration order.
RECURSIVE DeadCallbacks(_, _, _)
DeadCallbacks(tbl, alive, i) ==
    IF i > Len(tbl) THEN <<>>
    ELSE LET dead == SelectSeq(tbl[i].d, LAMBDA e : e.cb \notin alive)
         IN  [k \in 1 .. Len(dead) |-> [r |-> dead[k].cb, page |-> tbl[i].page]]
             \o DeadCallbacks(tbl, alive, i + 1)

\* Lines 142-145: every expired reference is deleted, and with it the dict of a
\* page that is left empty.
Purged(tbl, alive) ==
    LET t1 == [i \in 1 .. Len(tbl) |->
                  [page |-> tbl[i].page,
                   d |-> SelectSeq(tbl[i].d, LAMBDA e : e.cb \in alive),
                   had |-> \E k \in 1 .. Len(tbl[i].d) : tbl[i].d[k].cb \notin alive]]
        t2 == SelectSeq(t1, LAMBDA s : ~(s.had /\ s.d = <<>>))
    IN  [i \in 1 .. Len(t2) |-> [page |-> t2[i].page, d |-> t2[i].d]]

\* Line 142: "for r, page in deadcallbacks" binds the name page, the parameter of
\* makecallback: after the loop it is the page of the last expired reference.
PageAfterPurge(page, dead) ==
    IF dead = <<>> THEN page ELSE dead[Len(dead)].page

\* Line 155: self._callbacks[page][callbackref], 0 for a KeyError.
Lookup(tbl, page, cb) ==
    IF \E i \in 1 .. Len(tbl) : \E k \in 1 .. Len(tbl[i].d) :
           tbl[i].page = page /\ tbl[i].d[k].cb = cb
    THEN LET i == CHOOSE i \in 1 .. Len(tbl) : tbl[i].page = page
             k == CHOOSE k \in 1 .. Len(tbl[i].d) : tbl[i].d[k].cb = cb
         IN  tbl[i].d[k].f
    ELSE 0

\* Line 164: self._callbacks.setdefault(page, {})[callbackref] = newcallback
Insert(tbl, page, cb, f) ==
    IF \E i \in 1 .. Len(tbl) : tbl[i].page = page
    THEN [i \in 1 .. Len(tbl) |->
             IF tbl[i].page = page
             THEN [tbl[i] EXCEPT !.d = Append(@, [cb |-> cb, f |-> f])]
             ELSE tbl[i]]
    ELSE Append(tbl, [page |-> page, d |-> <<[cb |-> cb, f |-> f]>>])

\* makecallback(callback, page): the table and the closures after the call, the
\* forwarding callback returned, and whether it was created by this call. A
\* forwarding callback is the index of its closure (pageref, callbackref) in fw.
makecallback(tbl, fw, alive, callback, page) ==
    LET dead == DeadCallbacks(tbl, alive, 1)
        t2 == Purged(tbl, alive)
        pg == PageAfterPurge(page, dead)
        found == Lookup(t2, pg, callback)
        new == Len(fw) + 1
    IN  IF found # 0
        THEN [tbl |-> t2, fwd |-> fw, ret |-> found, created |-> FALSE]
        ELSE [tbl |-> Insert(t2, pg, callback, new),
              fwd |-> Append(fw, [page |-> pg, cb |-> callback]),
              ret |-> new, created |-> TRUE]

\* Lines 170, 181, 243: self.makecallback(callback, page) if callback else None;
\* callback 0 is None, and so is forwarding callback 0.
newcallbackFor(tbl, fw, alive, callback, page) ==
    IF callback # 0
    THEN makecallback(tbl, fw, alive, callback, page)
    ELSE [tbl |-> tbl, fwd |-> fw, ret |-> 0, created |-> FALSE]

\* Lines 158-163: newcallback(p): the calls of the original callback it makes.
newcallback(f, p) ==
    IF fwd[f].page \in alivePage /\ fwd[f].cb \in aliveCb
    THEN <<[cb |-> fwd[f].cb, page |-> fwd[f].page]>>
    ELSE <<>>


\* ------------------------------------------------------ MultiPageRenderer

\* The loop of update() as "ok = ok and p.renderer.update(...)" would run it: no
\* renderer is asked once one has reported work pending.
RECURSIVE UpdateLoopShort(_, _, _, _, _, _)
UpdateLoopShort(vis, notDone, f, i, calls, ok) ==
    IF i > Len(vis) THEN [calls |-> calls, ok |-> ok]
    ELSE LET p == vis[i].page
         IN  IF ok /\ p.renderer # 0
             THEN UpdateLoopShort(vis, notDone, f, i + 1,
                      Append(calls, [renderer |-> p.renderer, page |-> p.id,
                                     rect |-> Translated(vis[i].rect, p.geom),
                                     cb |-> f, ret |-> p.id \notin notDone]),
                      p.id \notin notDone)
             ELSE UpdateLoopShort(vis, notDone, f, i + 1, calls, ok)

\* The loop of update() over the visible sub pages, from entry i on: the calls of
\* the sub pages' renderers and the value of ok. The renderer of a sub page in
\* notDone has work pending for it and returns False.
RECURSIVE UpdateLoop(_, _, _, _, _, _)
UpdateLoop(vis, notDone, f, i, calls, ok) ==
    IF i > Len(vis) THEN [calls |-> calls, ok |-> ok]
    ELSE LET p == vis[i].page
         IN  IF p.renderer # 0
             THEN UpdateLoop(vis, notDone, f, i + 1,
                      Append(calls, [renderer |-> p.renderer, page |-> p.id,
                                     rect |-> Translated(vis[i].rect, p.geom),
                                     cb |-> f, ret |-> p.id \notin notDone]),
                      ok /\ p.id \notin notDone)
             ELSE UpdateLoop(vis, notDone, f, i + 1, calls, ok)

\* The jobs a sub page's renderer is left with after these calls: one for every
\* call that found work pending and was given a callback.
Scheduled(calls) ==
    {<<calls[k].page, calls[k].cb>> : k \in {j \in 1 .. Len(calls) :
                                              ~calls[j].ret /\ calls[j].cb # 0}}

\* combine() without reversed(): the images drawn in the order of the list.
combineInOrder(images) ==
    [k \in 1 .. Len(images) |->
        [op |-> "draw", pos |-> images[k].pos, page |-> images[k].page]]

\* combine(painter, images): the draw calls on the painter, in order.
combine(images) ==
    [k \in 1 .. Len(images) |->
        [op |-> "draw", pos |-> images[Len(images) + 1 - k].pos,
         page |-> images[Len(images) + 1 - k].page]]

\* Lines 189-201 of paint(): the pixmaps staged, one for every visible sub page.
Staged(vis) ==
    [k \in 1 .. Len(vis) |->
        [pos |-> <<vis[k].rect.x, vis[k].rect.y>>, page |-> vis[k].page.id]]

\* Lines 203-207 of paint(): the calls on the painter.
PaintOps(rect, vis) ==
    LET covered == {vis[k].rect : k \in 1 .. Len(vis)}
    IN  (IF Subtracted(rect, covered) # {}
         THEN <<[op |-> "fill", rect |-> rect]>> ELSE <<>>)
        \o combine(Staged(vis))

\* The loop of unschedule() over the given pages, from page i on.
RECURSIVE UnscheduleLoop(_, _, _, _, _, _)
UnscheduleLoop(Ps, callback, i, tbl, fw, calls) ==
    IF i > Len(Ps) THEN [tbl |-> tbl, fwd |-> fw, calls |-> calls]
    ELSE LET m == newcallbackFor(tbl, fw, aliveCb, callback, Ps[i])
             ps == SelectSeq(pages[Ps[i]], LAMBDA p : p.renderer # 0)
         IN  UnscheduleLoop(Ps, callback, i + 1, m.tbl, m.fwd,
                 calls \o [k \in 1 .. Len(ps) |->
                              [renderer |-> ps[k].renderer, page |-> ps[k].id,
                               cb |-> m.ret]])

\* Lines 251-254 of invalidate(): the sub pages of all the given pages, in order.
RECURSIVE SubPages(_, _)
SubPages(Ps, i) ==
    IF i > Len(Ps) THEN <<>> ELSE pages[Ps[i]] \o SubPages(Ps, i + 1)

\* invalidate() without the grouping: one call for every sub page.
invalidateEach(Ps) ==
    LET own == SelectSeq(SubPages(Ps, 1), LAMBDA p : p.renderer # 0)
    IN  [k \in 1 .. Len(own) |-> [renderer |-> own[k].renderer, pages |-> <<own[k].id>>]]

\* Lines 250-254: renderers[p.renderer].append(p), a dict in insertion order.
RECURSIVE Grouped(_, _, _)
Grouped(ps, i, acc) ==
    IF i > Len(ps) THEN acc
    ELSE IF ps[i].renderer = 0 THEN Grouped(ps, i + 1, acc)
    ELSE IF \E k \in 1 .. Len(acc) : acc[k].renderer = ps[i].renderer
    THEN Grouped(ps, i + 1,
             [k \in 1 .. Len(acc) |->
                 IF acc[k].renderer = ps[i].renderer
                 THEN [acc[k] EXCEPT !.pages = Append(@, ps[i].id)]
                 ELSE acc[k]])
    ELSE Grouped(ps, i + 1,
             Append(acc, [renderer |-> ps[i].renderer, pages |-> <<ps[i].id>>]))

\* invalidate(pages): the calls of the sub pages' renderers, one for every
\* renderer with the sub pages it owns.
invalidate(Ps) == Grouped(SubPages(Ps, 1), 1, <<>>)

\* ----------------------------------------------------------------- actions

\* No operation is running: the caller has taken the result of the last one.
Idle == [op |-> "idle"]

\* The caller takes the result of the operation.
Return ==
    /\ last # Idle
    /\ last' = Idle
    /\ UNCHANGED <<pages, size, opaquePages, alivePage, aliveCb, callbacks, fwd,
                   issued, pending>>

\* A caller asks page P which sub pages are visible in rect.
VisiblePagesAt(P, rect) ==
    /\ last = Idle
    /\ P \in alivePage
    /\ LET v == visiblePagesAt(pages[P], opaquePages, rect)
       IN  last' = [op |-> "visiblePagesAt", page |-> P, rect |-> rect,
                    out |-> v.out, examined |-> v.examined]
    /\ UNCHANGED <<pages, size, opaquePages, alivePage, aliveCb, callbacks, fwd,
                   issued, pending>>

\* MultiPage.updatePagePositions()
UpdatePagePositions(P) ==
    /\ last = Idle
    /\ P \in alivePage
    /\ pages' = [pages EXCEPT ![P] = Centered(@, size[P])]
    /\ last' = [op |-> "updatePagePositions", page |-> P]
    /\ UNCHANGED <<size, opaquePages, alivePage, aliveCb, callbacks, fwd, issued,
                   pending>>

\* MultiPageRenderer.makecallback(callback, page)
MakeCallback(callback, P) ==
    /\ last = Idle
    /\ P \in alivePage /\ callback \in aliveCb
    /\ LET m == makecallback(callbacks, fwd, aliveCb, callback, P)
       IN  /\ callbacks' = m.tbl
           /\ fwd' = m.fwd
           /\ issued' = [issued EXCEPT ![<<callback, P>>] = m.ret]
           /\ last' = [op |-> "makecallback", page |-> P, cb |-> callback,
                       ret |-> m.ret, created |-> m.created,
                       before |-> issued[<<callback, P>>]]
    /\ UNCHANGED <<pages, size, opaquePages, alivePage, aliveCb, pending>>

\* MultiPageRenderer.update(page, device, rect, callback)
Update(P, rect, callback, notDone) ==
    /\ last = Idle
    /\ P \in alivePage /\ callback \in aliveCb \cup {0}
    /\ LET m == newcallbackFor(callbacks, fwd, aliveCb, callback, P)
           vis == visiblePagesAt(pages[P], opaquePages, rect).out
           u == UpdateLoop(vis, notDone, m.ret, 1, <<>>, TRUE)
       IN  /\ callbacks' = m.tbl
           /\ fwd' = m.fwd
           /\ pending' = pending \cup Scheduled(u.calls)
           /\ Cardinality(pending') <= MaxJobs
           /\ last' = [op |-> "update", page |-> P, rect |-> rect, cb |-> callback,
                       notDone |-> notDone, calls |-> u.calls, ok |-> u.ok]
    /\ UNCHANGED <<pages, size, opaquePages, alivePage, aliveCb, issued>>

\* MultiPageRenderer.paint(page, painter, rect, callback). A sub page in notDone
\* has no image yet: its renderer paints what it has and schedules a job.
Paint(P, rect, callback, notDone) ==
    /\ last = Idle
    /\ P \in alivePage /\ callback \in aliveCb \cup {0}
    /\ LET m == newcallbackFor(callbacks, fwd, aliveCb, callback, P)
           vis == visiblePagesAt(pages[P], opaquePages, rect).out
       IN  /\ callbacks' = m.tbl
           /\ fwd' = m.fwd
           /\ pending' = pending \cup
                  {<<vis[k].page.id, m.ret>> : k \in {j \in 1 .. Len(vis) :
                       /\ vis[j].page.renderer # 0
                       /\ vis[j].page.id \in notDone
                       /\ m.ret # 0}}
           /\ Cardinality(pending') <= MaxJobs
           /\ last' = [op |-> "paint", page |-> P, rect |-> rect, cb |-> callback,
                       notDone |-> notDone, ops |-> PaintOps(rect, vis)]
    /\ UNCHANGED <<pages, size, opaquePages, alivePage, aliveCb, issued>>

\* MultiPageRenderer.unschedule(pages, callback): the renderer of a sub page
\* drops the job registered for the (sub page, callback) it is called with.
Unschedule(Ps, callback) ==
    /\ last = Idle
    /\ \A i \in 1 .. Len(Ps) : Ps[i] \in alivePage
    /\ callback \in aliveCb \cup {0}
    /\ LET u == UnscheduleLoop(Ps, callback, 1, callbacks, fwd, <<>>)
       IN  /\ callbacks' = u.tbl
           /\ fwd' = u.fwd
           /\ pending' = pending \ {<<u.calls[k].page, u.calls[k].cb>> :
                                       k \in 1 .. Len(u.calls)}
           /\ last' = [op |-> "unschedule", pages |-> Ps, cb |-> callback,
                       jobs |-> pending, calls |-> u.calls]
    /\ UNCHANGED <<pages, size, opaquePages, alivePage, aliveCb, issued>>

\* MultiPageRenderer.invalidate(pages)
Invalidate(Ps) ==
    /\ last = Idle
    /\ \A i \in 1 .. Len(Ps) : Ps[i] \in alivePage
    /\ last' = [op |-> "invalidate", pages |-> Ps, calls |-> invalidate(Ps)]
    /\ UNCHANGED <<pages, size, opaquePages, alivePage, aliveCb, callbacks, fwd,
                   issued, pending>>

\* The renderer of sub page c finishes a job and calls forwarding callback f.
JobDone(c, f) ==
    /\ last = Idle
    /\ <<c, f>> \in pending
    /\ pending' = pending \ {<<c, f>>}
    /\ last' = [op |-> "callback", f |-> f, child |-> c,
                delivered |-> newcallback(f, c)]
    /\ UNCHANGED <<pages, size, opaquePages, alivePage, aliveCb, callbacks, fwd,
                   issued>>

\* The last reference to a callback is dropped: the weak references to it expire.
ExpireCallback(callback) ==
    /\ last = Idle
    /\ callback \in aliveCb
    /\ aliveCb' = aliveCb \ {callback}
    /\ UNCHANGED <<pages, size, opaquePages, alivePage, callbacks, fwd, issued,
                   pending, last>>

\* The last reference to a multi page is dropped: the WeakKeyDictionary drops
\* its key and with it the dict of the page.
ExpirePage(P) ==
    /\ last = Idle
    /\ P \in alivePage
    /\ alivePage' = alivePage \ {P}
    /\ callbacks' = SelectSeq(callbacks, LAMBDA s : s.page # P)
    /\ UNCHANGED <<pages, size, opaquePages, aliveCb, fwd, issued, pending, last>>

\* ------------------------------------------------------------------ inputs

GridRects == {Rect(x, y, w, h) : x \in Coord, y \in Coord, w \in Extent, h \in Extent}
                 \cap {r \in [x : Coord, y : Coord, w : Extent, h : Extent] :
                          r.x + r.w - 1 \in Coord /\ r.y + r.h - 1 \in Coord}

\* Every sequence of at most MaxChildren sub pages of page P, each with a
\* geometry of geoms and a renderer of rds (0: the sub page has no renderer).
SubPageSeqs(P, geoms, rds) ==
    UNION {{[i \in 1 .. n |-> Child(P, i, g[i], r[i])] :
                g \in [1 .. n -> geoms], r \in [1 .. n -> rds]} : n \in 0 .. MaxChildren}

\* The sequences of one or two of the living multi pages.
PageLists == {<<P>> : P \in alivePage} \cup {<<P, Q>> : P \in alivePage, Q \in alivePage}

WithRenderer(P) == {pages[P][i].id : i \in {j \in 1 .. Len(pages[P]) :
                                               pages[P][j].renderer # 0}}

\* --------------------------------------- the specification of visiblePagesAt

\* Sub page A (30 x 30) on top of sub page B (50 x 50), not yet positioned.
ScenarioAB == <<Child(1, 1, Rect(0, 0, 30, 30), 0), Child(1, 2, Rect(0, 0, 50, 50), 0)>>

InitVis ==
    /\ \E ps \in SubPageSeqs(1, GridRects, {0}) \cup {ScenarioAB} :
       \E sz \in IF ps = ScenarioAB THEN {<<50, 50>>, <<60, 60>>}
                 ELSE {<<2, 2>>, <<3, 3>>} :
           /\ pages = [P \in {1} |-> ps]
           /\ size = [P \in {1} |-> sz]
    /\ opaquePages \in BOOLEAN
    /\ alivePage = {1}
    /\ aliveCb = {}
    /\ callbacks = <<>>
    /\ fwd = <<>>
    /\ issued = [k \in {} |-> 0]
    /\ pending = {}
    /\ last = Idle

VisVisiblePagesAt ==
    \E rect \in GridRects \cup {NullRect, PageRect(size[1])} : VisiblePagesAt(1, rect)

VisUpdatePagePositions == UpdatePagePositions(1)

NextVis == VisVisiblePagesAt \/ VisUpdatePagePositions \/ Return

SpecVis == InitVis /\ [][NextVis]_vars

\* ------------------------- the specification of update, paint and invalidate

LeftHalf == Rect(0, 0, 1, 2)

RightHalf == Rect(1, 0, 1, 2)

Whole == Rect(0, 0, 2, 2)

InitRender ==
    /\ \E ps \in SubPageSeqs(1, {LeftHalf, Whole}, {0, 1, 2}) :
           pages = [P \in {1, 2} |->
                       IF P = 1 THEN ps
                       ELSE <<Child(2, 1, LeftHalf, 1), Child(2, 2, Whole, 0),
                              Child(2, 3, RightHalf, 2)>>]
    /\ size = [P \in {1, 2} |-> <<2, 2>>]
    /\ opaquePages \in BOOLEAN
    /\ alivePage = {1, 2}
    /\ aliveCb = {}
    /\ callbacks = <<>>
    /\ fwd = <<>>
    /\ issued = [k \in {} |-> 0]
    /\ pending = {}
    /\ last = Idle

RenderUpdate ==
    \E P \in alivePage, rect \in {LeftHalf, Whole, Rect(1, 1, 1, 1), NullRect},
       callback \in aliveCb \cup {0} :
        \E notDone \in SUBSET WithRenderer(P) : Update(P, rect, callback, notDone)

RenderPaint ==
    \E P \in alivePage, rect \in {LeftHalf, Whole, Rect(1, 1, 1, 1), NullRect},
       callback \in aliveCb \cup {0} :
        \E notDone \in SUBSET WithRenderer(P) : Paint(P, rect, callback, notDone)

RenderInvalidate == \E Ps \in PageLists : Invalidate(Ps)

NextRender == RenderUpdate \/ RenderPaint \/ RenderInvalidate \/ Return

SpecRender == InitRender /\ [][NextRender]_vars

\* ------------------------------- the specification of the callback forwarding

Init ==
    /\ pages = [P \in 1 .. NPages |->
                   IF P = 1
                   THEN <<Child(P, 1, LeftHalf, 1), Child(P, 2, RightHalf, 2),
                          Child(P, 3, Whole, 0)>>
                   ELSE <<Child(P, 1, Whole, 0)>>]
    /\ size = [P \in 1 .. NPages |-> <<2, 2>>]
    /\ opaquePages = TRUE
    /\ alivePage = 1 .. NPages
    /\ aliveCb = 1 .. NCallbacks
    /\ callbacks = <<>>
    /\ fwd = <<>>
    /\ issued = [k \in (1 .. NCallbacks) \X (1 .. NPages) |-> 0]
    /\ pending = {}
    /\ last = Idle

CbMakeCallback == \E P \in alivePage, callback \in aliveCb : MakeCallback(callback, P)

CbUpdate ==
    \E P \in alivePage, rect \in {LeftHalf, Whole}, callback \in aliveCb :
        \E notDone \in SUBSET WithRenderer(P) : Update(P, rect, callback, notDone)

CbUnschedule ==
    \E Ps \in PageLists, callback \in aliveCb : Unschedule(Ps, callback)

CbJobDone == \E j \in pending : JobDone(j[1], j[2])

CbExpireCallback == \E callback \in aliveCb : ExpireCallback(callback)

CbExpirePage == \E P \in alivePage : ExpirePage(P)

Next ==
    \/ CbUpdate
    \/ CbUnschedule
    \/ CbJobDone
    \/ CbExpireCallback
    \/ CbExpirePage
    \/ Return

Spec == Init /\ [][Next]_vars

\* ------------------------------------ the specification of makecallback alone

NextTable == CbMakeCallback \/ CbExpireCallback \/ CbExpirePage \/ Return

SpecTable == Init /\ [][NextTable]_vars

\* ------------------------------------------------------------------ claims

\* The entries of _callbacks, as <<page, callback>>.
Entries ==
    UNION {{<<callbacks[i].page, callbacks[i].d[k].cb>> :
                k \in 1 .. Len(callbacks[i].d)} : i \in 1 .. Len(callbacks)}

\* C1: a call makecallback(cb, P) for a living callback and a living page
\* returns the very forwarding callback the previous call makecallback(cb, P)
\* returned, whatever calls for other pairs and whatever expirations of other
\* callbacks and pages came in between.
C1_SameForwardingCallback ==
    (last.op = "makecallback" /\ last.before # 0) => last.ret = last.before

\* C2: the forwarding callback that update(P, ..., cb) got from makecallback(cb, P)
\* and passed to the renderer of sub page c of P, when that renderer calls it
\* with c, calls cb exactly once with P if P and cb are both alive, and calls
\* nothing if either has expired.
C2_ForwardsToRequestedPage ==
    last.op = "callback" =>
        last.delivered =
            IF Parent(last.child) \in alivePage /\ fwd[last.f].cb \in aliveCb
            THEN <<[cb |-> fwd[last.f].cb, page |-> Parent(last.child)]>>
            ELSE <<>>

\* C3: unschedule(pages, cb) calls, for every job that an update(P, ..., cb) of a
\* page P of pages left pending on a sub page of P, the unschedule of that sub
\* page's renderer with that sub page and the forwarding callback of the job.
C3_UnscheduleReachesEveryJob ==
    last.op = "unschedule" =>
        \A j \in last.jobs :
            (/\ \E i \in 1 .. Len(last.pages) : last.pages[i] = Parent(j[1])
             /\ fwd[j[2]].cb = last.cb)
            => \E k \in 1 .. Len(last.calls) :
                   last.calls[k].page = j[1] /\ last.calls[k].cb = j[2]

\* The sub pages of the page of the last operation, and what they show of a rect.
Subs == pages[last.page]

Shown(p, rect) == Points(rect) \cap Points(p.geom)

\* C4: update() calls the renderer of every sub page that visiblePagesAt yields
\* and that has a renderer, of no other sub page, each once and in that order,
\* and returns true exactly if every one of these calls returned true.
C4_UpdateAsksEveryVisibleRenderer ==
    last.op = "update" =>
        LET vis == visiblePagesAt(Subs, opaquePages, last.rect).out
            own == SelectSeq(vis, LAMBDA e : e.page.renderer # 0)
        IN  /\ Len(last.calls) = Len(own)
            /\ \A k \in 1 .. Len(own) :
                   /\ last.calls[k].page = own[k].page.id
                   /\ last.calls[k].renderer = own[k].page.renderer
                   /\ last.calls[k].ret = (own[k].page.id \notin last.notDone)
            /\ last.ok = (\A k \in 1 .. Len(last.calls) : last.calls[k].ret)

\* An update where the first renderer asked has work pending, a later one is
\* asked all the same, and a visible sub page has no renderer.
C4_Witness ==
    /\ last.op = "update"
    /\ Len(last.calls) >= 2
    /\ ~last.calls[1].ret
    /\ last.calls[2].ret
    /\ ~last.ok
    /\ \E k \in 1 .. Len(Subs) :
           Subs[k].renderer = 0 /\ Shown(Subs[k], last.rect) # {}

\* The draw calls among the calls on the painter.
Draws == SelectSeq(last.ops, LAMBDA o : o.op = "draw")

\* C5: paint() draws the staged surfaces after the background fill, one for
\* every sub page visiblePagesAt yields, in the reverse of the order of the sub
\* page list, the topmost sub page last, whichever sub pages have finished
\* rendering.
C5_DrawnBottomFirst ==
    last.op = "paint" =>
        LET vis == visiblePagesAt(Subs, opaquePages, last.rect).out
        IN  /\ \A k \in 1 .. Len(last.ops) : last.ops[k].op = "fill" => k = 1
            /\ Len(Draws) = Len(vis)
            /\ \A k \in 1 .. Len(vis) :
                   /\ Draws[k].page = vis[Len(vis) + 1 - k].page.id
                   /\ Draws[k].pos = <<vis[Len(vis) + 1 - k].rect.x,
                                       vis[Len(vis) + 1 - k].rect.y>>
            /\ \A j \in 1 .. Len(Draws) : \A k \in 1 .. Len(Draws) :
                   j < k => Draws[j].page > Draws[k].page

\* A paint that fills the background and draws three surfaces, of which the
\* topmost sub page has not finished rendering and the bottom one has.
C5_Witness ==
    /\ last.op = "paint"
    /\ Len(last.ops) = 4
    /\ last.ops[1].op = "fill"
    /\ last.ops[4].page \in last.notDone
    /\ last.ops[2].page \notin last.notDone

\* Sub page A (30 x 30) on top of sub page B (50 x 50), both centered in a multi
\* page that holds them, opaquePages set, and the whole multi page asked for.
C6_Scenario ==
    /\ last.op = "visiblePagesAt"
    /\ opaquePages
    /\ Len(Subs) = 2
    /\ Subs[1].geom.w = 30 /\ Subs[1].geom.h = 30
    /\ Subs[2].geom.w = 50 /\ Subs[2].geom.h = 50
    /\ size[last.page][1] >= 50 /\ size[last.page][2] >= 50
    /\ Subs = Centered(Subs, size[last.page])
    /\ last.rect = PageRect(size[last.page])

\* C6, as amended: in the scenario visiblePagesAt yields A with A's whole rect
\* and then B with B's whole rect, the part below A included; the two rects
\* together cover exactly the area of B.
C6_YieldsBothWholeRects ==
    C6_Scenario =>
        /\ last.out = <<[page |-> Subs[1], rect |-> Subs[1].geom],
                        [page |-> Subs[2], rect |-> Subs[2].geom]>>
        /\ Points(last.out[1].rect) \cup Points(last.out[2].rect) = Points(Subs[2].geom)

C6_Witness == C6_Scenario /\ Len(last.out) = 2 /\ size[last.page] = <<60, 60>>

\* C6, as claimed: in the scenario visiblePagesAt yields A with A's whole rect
\* and B with the part of B that A does not cover.
C6_AsClaimed ==
    C6_Scenario =>
        /\ Len(last.out) = 2
        /\ last.out[1] = [page |-> Subs[1], rect |-> Subs[1].geom]
        /\ last.out[2].page = Subs[2]
        /\ Points(last.out[2].rect) \cap Points(Subs[1].geom) = {}
        /\ Points(last.out[1].rect) \cup Points(last.out[2].rect) = Points(Subs[2].geom)

\* The topmost sub page covers the whole of a rect that is not empty.
C7_TopCovers ==
    /\ last.op = "visiblePagesAt"
    /\ opaquePages
    /\ Len(Subs) >= 1
    /\ Points(last.rect) # {}
    /\ Points(last.rect) \subseteq Points(Subs[1].geom)

\* C7: with opaquePages set and the topmost sub page covering the requested
\* rect R, visiblePagesAt(R) yields (that sub page, R) and nothing else, and
\* examines no sub page below it.
C7_TopmostCoversAll ==
    C7_TopCovers =>
        /\ last.out = <<[page |-> Subs[1], rect |-> last.rect]>>
        /\ last.examined = 1

\* Two sub pages lie below the covering one and one of them is in the rect.
C7_Witness ==
    /\ C7_TopCovers
    /\ Len(Subs) = 3
    /\ Shown(Subs[3], last.rect) # {}
    /\ last.examined = 1

\* The sub pages that have a pixel in the rect, in the order of the list.
InRect == SelectSeq(Subs, LAMBDA p : Shown(p, last.rect) # {})

\* C8: without opaquePages, visiblePagesAt(R) yields one entry for every sub
\* page that has a pixel in R and for no other, in the order of the list, each
\* with the part of R that lies in the sub page.
C8_EveryIntersectingSubPage ==
    (last.op = "visiblePagesAt" /\ ~opaquePages) =>
        /\ Len(last.out) = Len(InRect)
        /\ \A k \in 1 .. Len(InRect) :
               /\ last.out[k].page = InRect[k]
               /\ Points(last.out[k].rect) = Shown(InRect[k], last.rect)

\* Three sub pages: the second lies wholly below the first and is yielded all
\* the same, the third has no pixel in the rect.
C8_Witness ==
    /\ last.op = "visiblePagesAt" /\ ~opaquePages
    /\ Len(Subs) = 3
    /\ Len(last.out) = 2
    /\ Points(last.out[2].rect) \subseteq Points(last.out[1].rect)
    /\ last.out[2].page = Subs[2]
    /\ Shown(Subs[3], last.rect) = {}

\* C9: invalidate(pages) calls invalidate once on every renderer that owns a sub
\* page of the given pages, and on no other, with exactly the sub pages of all
\* the given pages that it owns; a sub page without a renderer is passed to none.
C9_OneCallPerRenderer ==
    last.op = "invalidate" =>
        LET all == SubPages(last.pages, 1)
        IN  /\ \A j \in 1 .. Len(last.calls) : \A k \in 1 .. Len(last.calls) :
                   last.calls[j].renderer = last.calls[k].renderer => j = k
            /\ {last.calls[k].renderer : k \in 1 .. Len(last.calls)} =
                   {all[i].renderer : i \in 1 .. Len(all)} \ {0}
            /\ \A k \in 1 .. Len(last.calls) :
                   LET own == SelectSeq(all, LAMBDA p : p.renderer = last.calls[k].renderer)
                   IN  last.calls[k].pages = [i \in 1 .. Len(own) |-> own[i].id]

\* Two multi pages are invalidated; a renderer owns sub pages of both and is
\* called once with them, and a sub page has no renderer.
C9_Witness ==
    /\ last.op = "invalidate"
    /\ Len(last.pages) = 2 /\ last.pages[1] # last.pages[2]
    /\ Len(last.calls) = 2
    /\ \E k \in 1 .. 2 :
           \E a \in 1 .. Len(last.calls[k].pages) : \E b \in 1 .. Len(last.calls[k].pages) :
               Parent(last.calls[k].pages[a]) # Parent(last.calls[k].pages[b])
    /\ \E P \in alivePage : \E i \in 1 .. Len(pages[P]) : pages[P][i].renderer = 0

\* C10: when a makecallback call adds a new entry, the table holds no entry of an
\* expired callback and no empty dict of a page, so the entries are no more than
\* the (living callback, living page) pairs makecallback was called for.
C10_PurgedBeforeGrowing ==
    (last.op = "makecallback" /\ last.created) =>
        /\ \A e \in Entries : e[2] \in aliveCb
        /\ \A i \in 1 .. Len(callbacks) : callbacks[i].d # <<>>
        /\ Cardinality(Entries) <=
               Cardinality({k \in DOMAIN issued :
                   issued[k] # 0 /\ k[1] \in aliveCb /\ k[2] \in alivePage})

=============================================================================
